---- MODULE Spec2Model ----
(***************************************************************************)
(* The Streamlit e-commerce dashboard (src/dashboard/dashboard_ecommerce.py)*)
(* as a state machine.  The script is rerun from its first line on every    *)
(* filter change; one action models one statement group of the script.      *)
(*                                                                          *)
(* A DataFrame is a sequence of records (one record per row, one field per  *)
(* column, the field "index" holding the row label).  Categorical values    *)
(* and identifiers are small integers, a timestamp is a number of hours     *)
(* since the epoch, and a missing value (NaN, NaT, <NA>) is NULL.           *)
(***************************************************************************)
EXTENDS Integers, Sequences, FiniteSets, TLC

VARIABLES
    remote,         \* the parsed lines of the CSV file behind DATA_URL
    observed,       \* the installed pandas' default for groupby(observed=)
    cache,          \* st.cache_data's entries for load_data: <<[url, value]>>
    fetches,        \* how many times pd.read_csv has fetched DATA_URL
    runs,           \* script runs started in this process
    session,        \* the multiselect's widget state: <<>> or <<selection>>
    pc,             \* index in Script of the next statement group to run
    final_dataset,  \* script variable (line 35)
    state_filter,   \* script variable (line 44)
    df_filtered,    \* script variable (line 51)
    out,            \* the result tables of this run, by script variable name
    rendered,       \* the figures st.plotly_chart has shown in this run
    now             \* pd.Timestamp.now() as read at line 291

vars == <<remote, observed, cache, fetches, runs, session, pc, final_dataset,
          state_filter, df_filtered, out, rendered, now>>

-----------------------------------------------------------------------------
(* Bounds of the model *)

MaxRows == 3
MaxRuns == 2

-----------------------------------------------------------------------------
(* Values *)

NULL == -999999
BAD == -999998
HoursPerDay == 24
DATA_URL == "https://raw.githubusercontent.com/Alwirani/Analisis_Data/main/dashboard/final_dataset.csv"

Min(S) == CHOOSE x \in S : \A y \in S : x <= y
Max(S) == CHOOSE x \in S : \A y \in S : y <= x

RECURSIVE SortSet(_)
SortSet(S) == IF S = {} THEN <<>> ELSE <<Min(S)>> \o SortSet(S \ {Min(S)})

RECURSIVE Perms(_)
Perms(S) ==
    IF S = {} THEN {<<>>}
    ELSE UNION {{<<x>> \o p : p \in Perms(S \ {x})} : x \in S}

Range(s) == {s[i] : i \in 1..Len(s)}

-----------------------------------------------------------------------------
(* pandas primitives *)

\* df[c]
Col(df, c) == [i \in 1..Len(df) |-> df[i][c]]

\* df[mask]: the rows whose mask is True, in order, labels kept
BoolIndex(df, mask) ==
    LET keep == SortSet({i \in 1..Len(df) : mask[i]})
    IN  [k \in 1..Len(keep) |-> df[keep[k]]]

\* Series.isin(values)
isin(s, values) == [i \in 1..Len(s) |-> s[i] \in values]

\* Series.notnull()
notnull(s) == [i \in 1..Len(s) |-> s[i] # NULL]

\* Series.dropna()
dropna(s) == SelectSeq(s, LAMBDA v : v # NULL)

\* Series.unique(): the distinct values in first-encountered order, NaN included
unique(s) ==
    LET first == SortSet({i \in 1..Len(s) : \A j \in 1..(i - 1) : s[j] # s[i]})
    IN  [k \in 1..Len(first) |-> s[first[k]]]

\* Series.nunique(): NaN not counted
nunique(s) == Cardinality(Range(s) \ {NULL})

\* Series.sum(): NaN skipped, 0 for an empty series
RECURSIVE sum(_)
sum(s) ==
    IF s = <<>> THEN 0
    ELSE (IF Head(s) = NULL THEN 0 ELSE Head(s)) + sum(Tail(s))

\* Series.max(): NaT skipped, NaT for a series without values
max(s) == IF Range(s) \ {NULL} = {} THEN NULL ELSE Max(Range(s) \ {NULL})

\* Series.mean(): the sum and the count of the non-null values; 0/0 is NaN
mean(s) == <<sum(s), Len(dropna(s))>>

\* df.assign-like column write: df[c] = s
SetCol(df, c, s) == [i \in 1..Len(df) |-> (c :> s[i]) @@ df[i]]

\* DataFrame.head(n)
head(t, n) == SubSeq(t, 1, IF Len(t) < n THEN Len(t) ELSE n)

\* Series.dt.date, Series.dt.hour, (a - b).dt.days
dt_date(ts) == IF ts = NULL THEN NULL ELSE ts \div HoursPerDay
dt_hour(ts) == IF ts = NULL THEN NULL ELSE ts % HoursPerDay
dt_days(a, b) ==
    IF a = NULL \/ b = NULL THEN NULL ELSE (a - b) \div HoursPerDay

\* pd.to_datetime(v, errors='coerce')
to_datetime(v) == IF v = BAD THEN NULL ELSE v

\* pd.read_csv: the parsed lines with a RangeIndex
read_csv(raw) == [i \in 1..Len(raw) |-> ("index" :> (i - 1)) @@ raw[i]]

-----------------------------------------------------------------------------
(* load_data, lines 10-31 *)

datetime_columns ==
    <<"order_purchase_timestamp", "order_delivered_carrier_date",
      "order_delivered_customer_date", "order_estimated_delivery_date">>

RECURSIVE ConvertDatetime(_, _)
ConvertDatetime(df, cols) ==
    IF cols = <<>> THEN df
    ELSE ConvertDatetime(
             SetCol(df, Head(cols),
                    [i \in 1..Len(df) |-> to_datetime(df[i][Head(cols)])]),
             Tail(cols))

load_data(raw) == ConvertDatetime(read_csv(raw), datetime_columns)

CacheHit(url) == \E i \in 1..Len(cache) : cache[i].url = url
CacheValue(url) == (CHOOSE e \in Range(cache) : e.url = url).value

-----------------------------------------------------------------------------
(* The script: its statement groups in source order *)

Script ==
    <<"load_data", "sidebar", "summary",
      "daily_orders", "st.plotly_chart",
      "daily_revenue", "st.plotly_chart",
      "top10_product_categories", "st.plotly_chart",
      "order_status_counts", "st.plotly_chart",
      "payment_type_counts", "st.plotly_chart",
      "review_score_counts", "st.plotly_chart",
      "top10_seller_cities", "st.plotly_chart",
      "top10_customer_cities", "st.plotly_chart",
      "top10_product_categories_en", "st.plotly_chart",
      "order_purchase_hour", "st.plotly_chart",
      "shipping_time", "st.plotly_chart",
      "rfm", "st.plotly_chart",
      "fig_geo", "st.plotly_chart",
      "cluster_data", "st.plotly_chart",
      "delivery_category",
      "average_review_scores", "st.plotly_chart",
      "review_summary">>

Done == pc = Len(Script) + 1
At(step) == pc \in 1..Len(Script) /\ Script[pc] = step
PcOf(step) == CHOOSE i \in 1..Len(Script) : Script[i] = step

\* a step writes one result table and moves on
Produce(name, table) ==
    /\ out' = (name :> table) @@ out
    /\ pc' = pc + 1

-----------------------------------------------------------------------------
(* Lines 35-74 *)

\* LoadData without the memoization: every run fetches
M_LoadData ==
    /\ At("load_data")
    /\ final_dataset' = load_data(remote)
    /\ cache' = <<[url |-> DATA_URL, value |-> load_data(remote)]>>
    /\ fetches' = fetches + 1
    /\ pc' = pc + 1
    /\ UNCHANGED <<remote, observed, runs, session, state_filter, df_filtered,
                   out, rendered, now>>

\* line 35: final_dataset = load_data(DATA_URL), memoized by st.cache_data
LoadData ==
    /\ At("load_data")
    /\ IF CacheHit(DATA_URL)
       THEN /\ final_dataset' = CacheValue(DATA_URL)
            /\ UNCHANGED <<cache, fetches>>
       ELSE /\ final_dataset' = load_data(remote)
            /\ cache' = Append(cache, [url |-> DATA_URL, value |-> load_data(remote)])
            /\ fetches' = fetches + 1
    /\ pc' = pc + 1
    /\ UNCHANGED <<remote, observed, runs, session, state_filter, df_filtered,
                   out, rendered, now>>

\* the multiselect's options and default, lines 46-47
Options(df) == Range(unique(Col(df, "customer_state_y")))

\* ApplyStateFilter keeping one row per selected state
M_ApplyStateFilter(df, selected) ==
    BoolIndex(df, [i \in 1..Len(df) |->
                      /\ df[i]["customer_state_y"] \in selected
                      /\ \A j \in 1..(i - 1) :
                             df[j]["customer_state_y"] # df[i]["customer_state_y"]])

\* line 51
ApplyStateFilter(df, selected) ==
    BoolIndex(df, isin(Col(df, "customer_state_y"), selected))

\* lines 44-51: the widget returns its default on its first run and the
\* session's selection afterwards; then the filter is applied
Sidebar ==
    /\ At("sidebar")
    /\ LET selected == IF session = <<>> THEN Options(final_dataset)
                       ELSE session[1]
       IN  /\ session' = <<selected>>
           /\ state_filter' = selected
           /\ df_filtered' = ApplyStateFilter(final_dataset, selected)
    /\ pc' = pc + 1
    /\ UNCHANGED <<remote, observed, cache, fetches, runs, final_dataset, out,
                   rendered, now>>

\* lines 66-74
Summary ==
    /\ At("summary")
    /\ Produce("summary",
               [total_orders |-> nunique(Col(df_filtered, "order_id")),
                total_revenue |-> sum(Col(df_filtered, "price"))])
    /\ UNCHANGED <<remote, observed, cache, fetches, runs, session,
                   final_dataset, state_filter, df_filtered, rendered, now>>

\* PlotlyChart showing the figure of the statement after it
M_PlotlyChart ==
    /\ At("st.plotly_chart")
    /\ rendered' = rendered \cup {Script[pc + 1]}
    /\ pc' = pc + 1
    /\ UNCHANGED <<remote, observed, cache, fetches, runs, session,
                   final_dataset, state_filter, df_filtered, out, now>>

\* st.plotly_chart(fig, ...): shows the figure built by the statement before
PlotlyChart ==
    /\ At("st.plotly_chart")
    /\ rendered' = rendered \cup {Script[pc - 1]}
    /\ pc' = pc + 1
    /\ UNCHANGED <<remote, observed, cache, fetches, runs, session,
                   final_dataset, state_filter, df_filtered, out, now>>

\* A filter change: the user replaces the selection, Streamlit stops the
\* current run and reruns the script from the top with fresh script variables
FilterChange ==
    /\ session # <<>>
    /\ runs < MaxRuns
    /\ \E selected \in SUBSET Options(CacheValue(DATA_URL)) :
           /\ selected # session[1]
           /\ session' = <<selected>>
    /\ runs' = runs + 1
    /\ pc' = 1
    /\ final_dataset' = <<>>
    /\ state_filter' = {}
    /\ df_filtered' = <<>>
    /\ out' = <<>>
    /\ rendered' = {}
    /\ now' = 0
    /\ UNCHANGED <<remote, observed, cache, fetches>>

-----------------------------------------------------------------------------
(* Group-by helpers *)

\* the group keys of a groupby: sorted ascending, NaN keys dropped
GroupKeys(keys) == SortSet(Range(keys) \ {NULL})

\* the rows of the group whose key is k
Group(df, keys, k) == BoolIndex(df, [i \in 1..Len(df) |-> keys[i] = k])

\* a step that writes one result table and touches nothing else
Derive(name, table) ==
    /\ Produce(name, table)
    /\ UNCHANGED <<remote, observed, cache, fetches, runs, session,
                   final_dataset, state_filter, df_filtered, rendered, now>>

-----------------------------------------------------------------------------
(* Daily metrics, lines 83-101 *)

purchase_date(df) ==
    [i \in 1..Len(df) |-> dt_date(df[i]["order_purchase_timestamp"])]

\* daily_orders counting rows (count) instead of distinct orders (nunique)
M_daily_orders(df) ==
    LET date == purchase_date(df)
        ks == GroupKeys(date)
    IN  [j \in 1..Len(ks) |->
            ("Date" :> ks[j]) @@
            ("Total Orders" :> Len(dropna(Col(Group(df, date, ks[j]), "order_id"))))]

\* lines 83-84
daily_orders(df) ==
    LET date == purchase_date(df)
        ks == GroupKeys(date)
    IN  [j \in 1..Len(ks) |->
            ("Date" :> ks[j]) @@
            ("Total Orders" :> nunique(Col(Group(df, date, ks[j]), "order_id")))]

\* lines 97-101
daily_revenue(df) ==
    LET date == purchase_date(df)
        ks == GroupKeys(date)
    IN  [j \in 1..Len(ks) |->
            ("Date" :> ks[j]) @@
            ("Total Revenue" :> sum(Col(Group(df, date, ks[j]), "price"))) @@
            ("Total Orders" :> nunique(Col(Group(df, date, ks[j]), "order_id")))]

DailyOrders == At("daily_orders") /\ Derive("daily_orders", daily_orders(df_filtered))

DailyRevenue == At("daily_revenue") /\ Derive("daily_revenue", daily_revenue(df_filtered))

-----------------------------------------------------------------------------
(* Frequency tables, lines 153-244 *)

TopN == 10

\* Series.sort_values(ascending=False) on the counts, default kind='quicksort':
\* descending by count, the order among equal counts not fixed by the sort
RECURSIVE sort_values(_, _)
sort_values(keys, counts) ==
    IF keys = {} THEN {<<>>}
    ELSE LET m == Max({counts[v] : v \in keys})
             top == {v \in keys : counts[v] = m}
         IN  {p \o r : p \in Perms(top), r \in sort_values(keys \ top, counts)}

\* value_counts with dropna=False: NaN counted as a value
M_value_counts(s) ==
    LET keys == Range(s)
        counts == [v \in keys |-> Cardinality({i \in 1..Len(s) : s[i] = v})]
    IN  {[k \in 1..Len(o) |-> <<o[k], counts[o[k]]>>] : o \in sort_values(keys, counts)}

\* Series.value_counts(): the possible results, each a sequence of
\* (value, count) over the non-null values
value_counts(s) ==
    LET keys == Range(dropna(s))
        counts == [v \in keys |-> Cardinality({i \in 1..Len(s) : s[i] = v})]
    IN  {[k \in 1..Len(o) |-> <<o[k], counts[o[k]]>>] : o \in sort_values(keys, counts)}

\* .reset_index() and .columns = [label, 'Frequency']
frequency_columns(vc, label) ==
    [k \in 1..Len(vc) |-> (label :> vc[k][1]) @@ ("Frequency" :> vc[k][2])]

\* the seven frequency charts: result table, source column, label, head(10)
FrequencyCharts ==
    { [table |-> "top10_product_categories", column |-> "product_category_name",
       label |-> "Product Category", top10 |-> TRUE],
      [table |-> "order_status_counts", column |-> "order_status_x",
       label |-> "Order Status", top10 |-> FALSE],
      [table |-> "payment_type_counts", column |-> "payment_type",
       label |-> "Payment Type", top10 |-> FALSE],
      [table |-> "review_score_counts", column |-> "review_score",
       label |-> "Review Score", top10 |-> FALSE],
      [table |-> "top10_seller_cities", column |-> "seller_city",
       label |-> "Seller City", top10 |-> TRUE],
      [table |-> "top10_customer_cities", column |-> "customer_city_x",
       label |-> "Customer City", top10 |-> TRUE],
      [table |-> "top10_product_categories_en",
       column |-> "product_category_name_english",
       label |-> "Product Category (EN)", top10 |-> TRUE] }

\* df_filtered[column].value_counts()[.head(10)].reset_index()
frequency_table(vc, ch) ==
    frequency_columns(IF ch.top10 THEN head(vc, TopN) ELSE vc, ch.label)

ValueCounts ==
    \E ch \in FrequencyCharts :
        /\ At(ch.table)
        /\ \E vc \in value_counts(Col(df_filtered, ch.column)) :
               Derive(ch.table, frequency_table(vc, ch))

-----------------------------------------------------------------------------
(* Histograms, lines 258-282 *)

\* line 258
order_purchase_hour(df) ==
    [i \in 1..Len(df) |-> dt_hour(df[i]["order_purchase_timestamp"])]

\* shipping_time with the operands exchanged
M_shipping_time(df) ==
    [i \in 1..Len(df) |->
        dt_days(df[i]["order_delivered_carrier_date"],
                df[i]["order_delivered_customer_date"])]

\* line 272
shipping_time(df) ==
    [i \in 1..Len(df) |->
        dt_days(df[i]["order_delivered_customer_date"],
                df[i]["order_delivered_carrier_date"])]

\* AddColumn writing over the purchase timestamps instead of a new column
M_AddColumn(name, s) ==
    /\ df_filtered' = SetCol(df_filtered, "order_purchase_timestamp", s)
    /\ Produce(name, s)
    /\ UNCHANGED <<remote, observed, cache, fetches, runs, session,
                   final_dataset, state_filter, rendered, now>>

\* a step that writes a derived column into df_filtered; the figure built
\* from it holds that column
AddColumn(name, s) ==
    /\ df_filtered' = SetCol(df_filtered, name, s)
    /\ Produce(name, s)
    /\ UNCHANGED <<remote, observed, cache, fetches, runs, session,
                   final_dataset, state_filter, rendered, now>>

PurchaseHour ==
    /\ At("order_purchase_hour")
    /\ AddColumn("order_purchase_hour", order_purchase_hour(df_filtered))

ShippingTime ==
    /\ At("shipping_time")
    /\ AddColumn("shipping_time", shipping_time(df_filtered))

-----------------------------------------------------------------------------
(* RFM analysis, lines 291-320 *)

\* the values pd.Timestamp.now() may return at line 291
NowValues == {40, 200}

\* DataFrame.merge(other, on=key): inner join, the left rows' order kept
RECURSIVE merge(_, _, _)
merge(a, b, on) ==
    IF a = <<>> THEN <<>>
    ELSE LET m == SelectSeq(b, LAMBDA q : q[on] = Head(a)[on])
         IN  [k \in 1..Len(m) |-> Head(a) @@ m[k]] \o merge(Tail(a), b, on)

\* lines 294-295
recency(df, t) ==
    LET ks == GroupKeys(Col(df, "customer_id"))
        last(k) == max(Col(Group(df, Col(df, "customer_id"), k),
                           "order_purchase_timestamp"))
    IN  [j \in 1..Len(ks) |->
            [customer_id |-> ks[j],
             order_purchase_timestamp |-> last(ks[j]),
             Recency |-> dt_days(t, last(ks[j]))]]

\* frequency counting rows (count) instead of distinct orders (nunique)
M_frequency(df) ==
    LET ks == GroupKeys(Col(df, "customer_id"))
    IN  [j \in 1..Len(ks) |->
            [customer_id |-> ks[j],
             Frequency |-> Len(Group(df, Col(df, "customer_id"), ks[j]))]]

\* lines 298-299
frequency(df) ==
    LET ks == GroupKeys(Col(df, "customer_id"))
    IN  [j \in 1..Len(ks) |->
            [customer_id |-> ks[j],
             Frequency |-> nunique(Col(Group(df, Col(df, "customer_id"), ks[j]),
                                       "order_id"))]]

\* lines 302-303
monetary(df) ==
    LET ks == GroupKeys(Col(df, "customer_id"))
    IN  [j \in 1..Len(ks) |->
            [customer_id |-> ks[j],
             Monetary |-> sum(Col(Group(df, Col(df, "customer_id"), ks[j]),
                                  "price"))]]

\* line 306
rfm(df, t) ==
    merge(merge(recency(df, t), frequency(df), "customer_id"),
          monetary(df), "customer_id")

RFM ==
    /\ At("rfm")
    /\ \E t \in NowValues :
           /\ now' = t
           /\ Produce("rfm", rfm(df_filtered, t))
    /\ UNCHANGED <<remote, observed, cache, fetches, runs, session,
                   final_dataset, state_filter, df_filtered, rendered>>

-----------------------------------------------------------------------------
(* Geospatial analysis and clustering, lines 328-375 *)

\* lines 328-336: the points px.scatter_geo takes from df_filtered
fig_geo(df) ==
    [i \in 1..Len(df) |->
        [lat |-> df[i]["geolocation_lat"],
         lon |-> df[i]["geolocation_lng"],
         hover_name |-> df[i]["customer_city_y"]]]

Geo == At("fig_geo") /\ Derive("fig_geo", fig_geo(df_filtered))

\* lines 358-362
cluster_data(df) ==
    LET state == Col(df, "customer_state_y")
        ks == GroupKeys(state)
    IN  [j \in 1..Len(ks) |->
            ("State" :> ks[j]) @@
            ("Total Revenue ($)" :> sum(Col(Group(df, state, ks[j]), "price"))) @@
            ("Total Orders" :> nunique(Col(Group(df, state, ks[j]), "order_id")))]

Cluster == At("cluster_data") /\ Derive("cluster_data", cluster_data(df_filtered))

-----------------------------------------------------------------------------
(* Advanced analysis, lines 384-429 *)

\* line 399: the finite bin edges; the first bin starts at -inf, the last
\* ends at +inf
bins == <<0, 2>>

\* line 396
choices == <<"On Time", "Delayed 1-2 Days", "Delayed More Than 2 Days">>

\* cut with right=False: the bins closed on the left
M_cut(x) ==
    IF x = NULL THEN NULL
    ELSE 1 + Cardinality({k \in 1..Len(bins) : x >= bins[k]})

\* pd.cut(x, bins, labels) with the default right=True: the bin (e, e'] that
\* holds x, as the position of its label; NaN for NaN
cut(x) ==
    IF x = NULL THEN NULL
    ELSE 1 + Cardinality({k \in 1..Len(bins) : x > bins[k]})

\* line 388
delivery_delay(df) ==
    [i \in 1..Len(df) |->
        dt_days(df[i]["order_delivered_customer_date"],
                df[i]["order_estimated_delivery_date"])]

\* lines 384-401
DeliveryCategory ==
    /\ At("delivery_category")
    /\ LET d1 == SetCol(df_filtered, "order_delivered_customer_date",
                        [i \in 1..Len(df_filtered) |->
                            to_datetime(df_filtered[i]["order_delivered_customer_date"])])
           d2 == SetCol(d1, "order_estimated_delivery_date",
                        [i \in 1..Len(d1) |->
                            to_datetime(d1[i]["order_estimated_delivery_date"])])
           d3 == SetCol(d2, "delivery_delay", delivery_delay(d2))
       IN  df_filtered' =
               SetCol(d3, "delivery_category",
                      [i \in 1..Len(d3) |-> cut(d3[i]["delivery_delay"])])
    /\ pc' = pc + 1
    /\ UNCHANGED <<remote, observed, cache, fetches, runs, session,
                   final_dataset, state_filter, out, rendered, now>>

\* the groups of groupby('delivery_category') on the categorical column:
\* every category with observed=False, the categories present with
\* observed=True
CategoryGroups(df, obs) ==
    IF obs THEN GroupKeys(Col(df, "delivery_category"))
    ELSE [k \in 1..Len(choices) |-> k]

\* line 404
average_review_scores(df, obs) ==
    LET cats == CategoryGroups(df, obs)
    IN  [j \in 1..Len(cats) |->
            [delivery_category |-> choices[cats[j]],
             review_score |->
                 mean(Col(Group(df, Col(df, "delivery_category"), cats[j]),
                          "review_score"))]]

AverageReviewScores ==
    /\ At("average_review_scores")
    /\ Derive("average_review_scores", average_review_scores(df_filtered, observed))

\* the keys of a two-column groupby, sorted by the first and then the second
RECURSIVE SortPairs(_)
SortPairs(S) ==
    IF S = {} THEN <<>>
    ELSE LET m == CHOOSE x \in S : \A y \in S :
                      x[1] < y[1] \/ (x[1] = y[1] /\ x[2] <= y[2])
         IN  <<m>> \o SortPairs(S \ {m})

\* lines 417-418
review_summary(df) ==
    LET nn == BoolIndex(df, notnull(Col(df, "review_score")))
        key == [i \in 1..Len(nn) |-> <<nn[i]["order_status_x"], nn[i]["payment_type"]>>]
        ks == SortPairs({k \in Range(key) : k[1] # NULL /\ k[2] # NULL})
    IN  [j \in 1..Len(ks) |->
            [order_status_x |-> ks[j][1],
             payment_type |-> ks[j][2],
             review_score |-> mean(Col(Group(nn, key, ks[j]), "review_score"))]]

ReviewSummary == At("review_summary") /\ Derive("review_summary", review_summary(df_filtered))

-----------------------------------------------------------------------------
(* The CSV files the model is run on *)

BaseRow ==
    [customer_state_y |-> 1, order_id |-> 1, customer_id |-> 1, price |-> 10,
     order_purchase_timestamp |-> 30, order_delivered_carrier_date |-> 50,
     order_delivered_customer_date |-> 100,
     order_estimated_delivery_date |-> 120, review_score |-> 5,
     product_category_name |-> 1, order_status_x |-> 1, payment_type |-> 1,
     seller_city |-> 1, customer_city_x |-> 1,
     product_category_name_english |-> 1, geolocation_lat |-> 23,
     geolocation_lng |-> 46, customer_city_y |-> 1]

\* every file of at most MaxRows lines drawn from rows
Files(rows) == UNION {[1..n -> rows] : n \in 0..MaxRows}

\* rows that differ in state, order, price and review score
StateRows ==
    { [BaseRow EXCEPT !.customer_state_y = 1],
      [BaseRow EXCEPT !.customer_state_y = 1, !.order_id = 2, !.price = 7],
      [BaseRow EXCEPT !.customer_state_y = 2, !.order_id = 3, !.review_score = 2],
      [BaseRow EXCEPT !.customer_state_y = 2, !.order_id = 1, !.review_score = NULL] }

\* a row with the given delivery dates and review score
DeliveryRow(carrier, customer, estimated, score) ==
    [BaseRow EXCEPT !.order_delivered_carrier_date = carrier,
                    !.order_delivered_customer_date = customer,
                    !.order_estimated_delivery_date = estimated,
                    !.review_score = score]

\* rows that differ in the delivery dates (hours) and the review score:
\* delivered 1 hour, 25, 48 and 72 hours after the estimate, delivered 20
\* hours before the estimate and 10 hours before the carrier date, and a row
\* whose estimate is unreadable
DeliveryRows ==
    { DeliveryRow(50, 121, 120, 5),
      DeliveryRow(NULL, 145, 120, 4),
      DeliveryRow(50, 168, 120, NULL),
      DeliveryRow(50, 192, 120, 3),
      DeliveryRow(110, 100, 120, 1),
      DeliveryRow(50, 100, BAD, 2) }

\* a row with the given customer, order, price and purchase time
OrderRow(customer, order, price, purchased) ==
    [BaseRow EXCEPT !.customer_id = customer, !.order_id = order,
                    !.price = price, !.order_purchase_timestamp = purchased]

\* rows that differ in customer, order, price and purchase time (hours):
\* two items of one order, another customer's order later the same day, a
\* row without purchase time, a row without customer, and an order of the
\* first customer on the day before
OrderRows ==
    { OrderRow(1, 1, 10, 30),
      OrderRow(1, 1, 5, 30),
      OrderRow(2, 3, 7, 47),
      OrderRow(2, 4, 3, NULL),
      OrderRow(NULL, 5, 8, 5),
      OrderRow(1, 2, 20, 3) }

\* files for the frequency tables: categories 1..k, category c on c lines
\* (on c + 1 lines when c = tie, which ties it with category c + 1), the
\* categories met in ascending order, after `blank` lines without category
MaxCats == 11

CategoryLines(c, tie) == IF c = tie THEN c + 1 ELSE c

RECURSIVE CategoryRounds(_, _, _)
CategoryRounds(k, tie, r) ==
    IF r > k + 1 THEN <<>>
    ELSE SortSet({c \in 1..k : CategoryLines(c, tie) >= r})
             \o CategoryRounds(k, tie, r + 1)

CategoryRow(c) ==
    [BaseRow EXCEPT !.product_category_name = c,
                    !.order_status_x = IF c = NULL \/ c > 3 THEN 4 ELSE c]

CategoryFile(k, tie, blank) ==
    LET cs == [i \in 1..blank |-> NULL] \o CategoryRounds(k, tie, 1)
    IN  [i \in 1..Len(cs) |-> CategoryRow(cs[i])]

CategoryFiles ==
    { CategoryFile(k, tie, blank) :
          k \in {0, 2, MaxCats - 1, MaxCats}, tie \in 0..MaxCats, blank \in 0..1 }

InitWith(files) ==
    /\ remote \in files
    /\ observed \in BOOLEAN
    /\ cache = <<>>
    /\ fetches = 0
    /\ runs = 1
    /\ session = <<>>
    /\ pc = 1
    /\ final_dataset = <<>>
    /\ state_filter = {}
    /\ df_filtered = <<>>
    /\ out = <<>>
    /\ rendered = {}
    /\ now = 0

Init == InitWith(Files(StateRows))

Next ==
    \/ LoadData
    \/ Sidebar
    \/ Summary
    \/ DailyOrders
    \/ DailyRevenue
    \/ ValueCounts
    \/ PurchaseHour
    \/ ShippingTime
    \/ RFM
    \/ Geo
    \/ Cluster
    \/ DeliveryCategory
    \/ AverageReviewScores
    \/ ReviewSummary
    \/ PlotlyChart
    \/ FilterChange

Spec == Init /\ [][Next]_vars

InitDelivery == InitWith(Files(DeliveryRows))
SpecDelivery == InitDelivery /\ [][Next]_vars

InitOrders == InitWith(Files(OrderRows))
SpecOrders == InitOrders /\ [][Next]_vars

InitTopN == InitWith(CategoryFiles)
SpecTopN == InitTopN /\ [][Next]_vars

-----------------------------------------------------------------------------
(* Properties *)

Past(step) == pc > PcOf(step)

RECURSIVE SumOver(_, _)
SumOver(S, f) ==
    IF S = {} THEN 0
    ELSE LET x == CHOOSE y \in S : TRUE IN f[x] + SumOver(S \ {x}, f)

\* d is the whole number of days in a - b hours, rounded down
WholeDays(d, a, b) ==
    /\ d # NULL
    /\ d * HoursPerDay <= a - b
    /\ a - b < (d + 1) * HoursPerDay

\* r holds every column of q with q's value
SameRow(r, q) == \A c \in DOMAIN q : c \in DOMAIN r /\ r[c] = q[c]

\* the result tables a complete run produces, the summary metrics aside
ResultTables ==
    Range(Script) \ {"load_data", "sidebar", "summary", "st.plotly_chart",
                     "delivery_category"}

\* C1: once the filter step of a run has executed, whatever the earlier
\* selections were, the filtered table holds exactly the rows of the loaded
\* dataset whose customer state is in the current selection, in their
\* original order and without deduplication; with the full distinct state
\* set selected it equals the loaded table row for row.
C1_FilteredIsSelectedRows ==
    Past("sidebar") =>
        LET keep == {i \in 1..Len(final_dataset) :
                         final_dataset[i]["customer_state_y"] \in session[1]}
            states == {final_dataset[i]["customer_state_y"] :
                           i \in 1..Len(final_dataset)}
        IN  /\ state_filter = session[1]
            /\ Len(final_dataset) = Len(remote)
            /\ \A i \in 1..Len(remote) :
                   final_dataset[i]["customer_state_y"] = remote[i]["customer_state_y"]
            /\ Len(df_filtered) = Cardinality(keep)
            /\ \A i \in keep :
                   SameRow(df_filtered[Cardinality({j \in keep : j <= i})],
                           final_dataset[i])
            /\ session[1] = states =>
                   /\ Len(df_filtered) = Len(final_dataset)
                   /\ \A i \in 1..Len(final_dataset) :
                          SameRow(df_filtered[i], final_dataset[i])

\* a later run whose selection keeps two rows of one state and drops a row
C1_Witness ==
    /\ runs = 2
    /\ Past("sidebar")
    /\ Len(df_filtered) = 2
    /\ Len(final_dataset) = 3
    /\ df_filtered[1]["customer_state_y"] = df_filtered[2]["customer_state_y"]

\* C2: when a run has completed with an empty filtered table, the summary
\* metrics are 0 and every other result table has zero rows.
C2_EmptySelectionEmptyResults ==
    (Done /\ Len(df_filtered) = 0) =>
        /\ out["summary"] = [total_orders |-> 0, total_revenue |-> 0]
        /\ \A t \in ResultTables : t \in DOMAIN out /\ Len(out[t]) = 0

\* C3 as stated: the shipping duration of every row is the carrier date
\* minus the customer date in whole days, null when either date is null.
C3_CarrierMinusCustomer ==
    Past("shipping_time") =>
        \A i \in 1..Len(df_filtered) :
            LET carrier == df_filtered[i]["order_delivered_carrier_date"]
                customer == df_filtered[i]["order_delivered_customer_date"]
                s == df_filtered[i]["shipping_time"]
            IN  IF carrier = NULL \/ customer = NULL THEN s = NULL
                ELSE WholeDays(s, carrier, customer)

\* C3 amended: the shipping duration of every row is the customer date minus
\* the carrier date in whole days (rounded down), null when either date is
\* null; the histogram is built from exactly these values.
C3_CustomerMinusCarrier ==
    Past("shipping_time") =>
        /\ Len(out["shipping_time"]) = Len(df_filtered)
        /\ \A i \in 1..Len(df_filtered) :
               LET carrier == df_filtered[i]["order_delivered_carrier_date"]
                   customer == df_filtered[i]["order_delivered_customer_date"]
                   s == df_filtered[i]["shipping_time"]
               IN  /\ out["shipping_time"][i] = s
                   /\ IF carrier = NULL \/ customer = NULL THEN s = NULL
                      ELSE WholeDays(s, customer, carrier)

\* a filtered table with a positive, a negative and a null shipping duration
C3_Witness ==
    /\ Past("shipping_time")
    /\ \E i, j, k \in 1..Len(df_filtered) :
           /\ df_filtered[i]["shipping_time"] = NULL
           /\ df_filtered[j]["shipping_time"] # NULL
           /\ df_filtered[j]["shipping_time"] < 0
           /\ df_filtered[k]["shipping_time"] > 0

\* C4: the delivery delay of every row is the customer date minus the
\* estimated date in whole days, the category is 'On Time' for a delay <= 0,
\* 'Delayed 1-2 Days' for 0 < delay <= 2, 'Delayed More Than 2 Days' for a
\* delay > 2 and null when either date is null (an unreadable estimate
\* included); each category's mean review score is the sum over the count of
\* the rows of that category with a review score, so a row with a null delay
\* or a null score is counted nowhere.
C4_DelayCategoryAndMean ==
    Past("average_review_scores") =>
        LET rows == 1..Len(df_filtered)
            cat(i) == df_filtered[i]["delivery_category"]
            score(i) == df_filtered[i]["review_score"]
            counted(label) ==
                {i \in rows : cat(i) # NULL /\ choices[cat(i)] = label
                              /\ score(i) # NULL}
            t == out["average_review_scores"]
        IN  /\ \A i \in rows :
                   LET customer == df_filtered[i]["order_delivered_customer_date"]
                       estimated == df_filtered[i]["order_estimated_delivery_date"]
                       d == df_filtered[i]["delivery_delay"]
                   IN  /\ IF customer = NULL \/ estimated = NULL
                          THEN d = NULL /\ cat(i) = NULL
                          ELSE /\ WholeDays(d, customer, estimated)
                               /\ cat(i) # NULL
                               /\ choices[cat(i)] =
                                      IF d <= 0 THEN "On Time"
                                      ELSE IF d <= 2 THEN "Delayed 1-2 Days"
                                      ELSE "Delayed More Than 2 Days"
                       /\ remote[df_filtered[i]["index"] + 1]["order_estimated_delivery_date"] = BAD
                              => cat(i) = NULL
                       /\ cat(i) # NULL =>
                              \E j \in 1..Len(t) : t[j].delivery_category = choices[cat(i)]
            /\ \A j \in 1..Len(t) :
                   /\ t[j].review_score =
                          <<SumOver(counted(t[j].delivery_category),
                                    [i \in rows |-> score(i)]),
                            Cardinality(counted(t[j].delivery_category))>>
                   /\ \A k \in 1..Len(t) :
                          t[k].delivery_category = t[j].delivery_category => k = j

\* a category averaged over two rows beside a row with a null delay
C4_Witness ==
    /\ Past("average_review_scores")
    /\ \E i \in 1..Len(df_filtered) : df_filtered[i]["delivery_delay"] = NULL
    /\ \E j \in 1..Len(out["average_review_scores"]) :
           out["average_review_scores"][j].review_score[2] = 2

\* C5: the RFM table holds exactly one record per distinct non-null customer
\* id of the filtered table, with Frequency the number of distinct order ids
\* of the customer's rows, Monetary the sum of their prices and Recency the
\* whole days from the customer's latest purchase to the evaluation instant,
\* which is not negative when that purchase is not later than the instant.
C5_RFM ==
    Past("rfm") =>
        LET rows == 1..Len(df_filtered)
            customers == {df_filtered[i]["customer_id"] : i \in rows} \ {NULL}
            t == out["rfm"]
        IN  /\ Len(t) = Cardinality(customers)
            /\ \A c \in customers : \E j \in 1..Len(t) : t[j].customer_id = c
            /\ \A j \in 1..Len(t) :
                   LET mine == {i \in rows : df_filtered[i]["customer_id"] = t[j].customer_id}
                       stamps == {df_filtered[i]["order_purchase_timestamp"] : i \in mine}
                                     \ {NULL}
                   IN  /\ t[j].customer_id \in customers
                       /\ t[j].Frequency =
                              Cardinality({df_filtered[i]["order_id"] : i \in mine})
                       /\ t[j].Monetary =
                              SumOver(mine, [i \in rows |-> df_filtered[i]["price"]])
                       /\ IF stamps = {} THEN t[j].Recency = NULL
                          ELSE \E m \in stamps :
                                   /\ \A x \in stamps : x <= m
                                   /\ WholeDays(t[j].Recency, now, m)
                                   /\ m <= now => t[j].Recency >= 0

\* two customers, one of them with two rows of one order
C5_Witness ==
    /\ Past("rfm")
    /\ Len(out["rfm"]) = 2
    /\ \E j \in 1..2 :
           /\ out["rfm"][j].Frequency = 1
           /\ Cardinality({i \in 1..Len(df_filtered) :
                  df_filtered[i]["customer_id"] = out["rfm"][j].customer_id}) = 2

\* the properties of a frequency table that do not depend on the order of
\* equal counts
FrequencyTableOk(ch) ==
    LET t == out[ch.table]
        s == Col(df_filtered, ch.column)
        values == Range(s) \ {NULL}
        count(v) == Cardinality({i \in 1..Len(s) : s[i] = v})
        n == IF ch.top10 THEN TopN ELSE Cardinality(values)
        returned == {t[j][ch.label] : j \in 1..Len(t)}
    IN  /\ Len(t) <= n
        /\ Len(t) = Cardinality(returned)
        /\ \A j \in 1..Len(t) :
               /\ t[j][ch.label] \in values
               /\ t[j]["Frequency"] = count(t[j][ch.label])
        /\ \A j \in 1..(Len(t) - 1) : t[j]["Frequency"] >= t[j + 1]["Frequency"]
        /\ \A v \in values \ returned :
               /\ Len(t) = n
               /\ \A j \in 1..Len(t) : count(v) <= t[j]["Frequency"]
        /\ SumOver(1..Len(t), [j \in 1..Len(t) |-> t[j]["Frequency"]])
               <= Cardinality({i \in 1..Len(s) : s[i] # NULL})

\* values with equal counts stand in the order of their first rows
TiesFirstEncountered(ch) ==
    LET t == out[ch.table]
        s == Col(df_filtered, ch.column)
        firstRow(v) == Min({i \in 1..Len(s) : s[i] = v})
    IN  \A j \in 1..(Len(t) - 1) :
            t[j]["Frequency"] = t[j + 1]["Frequency"]
                => firstRow(t[j][ch.label]) < firstRow(t[j + 1][ch.label])

\* C6 as stated: every frequency table has at most N rows, holds only
\* non-null values with their exact counts, is ordered by count descending
\* with ties in first-encountered order, omits no value with a count greater
\* than a returned one, and its counts sum to at most the non-null rows.
C6_TopNStableTies ==
    \A ch \in FrequencyCharts :
        ch.table \in DOMAIN out => FrequencyTableOk(ch) /\ TiesFirstEncountered(ch)

\* C6 amended: as stated, without the order among values of equal count
C6_TopN ==
    \A ch \in FrequencyCharts : ch.table \in DOMAIN out => FrequencyTableOk(ch)

\* more than ten categories, ten of them returned
C6_Witness ==
    /\ "top10_product_categories" \in DOMAIN out
    /\ Len(out["top10_product_categories"]) = TopN
    /\ Cardinality(Range(Col(df_filtered, "product_category_name")) \ {NULL}) > TopN
    /\ \E i \in 1..Len(df_filtered) : df_filtered[i]["product_category_name"] = NULL

\* C7: Daily Orders has one row per distinct calendar date of the non-null
\* purchase timestamps, ascending by date, each with the number of distinct
\* order ids purchased on that date; Daily Revenue vs Orders has the same
\* dates and counts plus the sum of price over all rows of the date.
C7_DailyTables ==
    Past("daily_revenue") =>
        LET rows == 1..Len(df_filtered)
            stamp(i) == df_filtered[i]["order_purchase_timestamp"]
            onDate(d) == {i \in rows : /\ stamp(i) # NULL
                                       /\ d * HoursPerDay <= stamp(i)
                                       /\ stamp(i) < (d + 1) * HoursPerDay}
            o == out["daily_orders"]
            r == out["daily_revenue"]
        IN  /\ \A i \in rows : stamp(i) # NULL =>
                   \E j \in 1..Len(o) : i \in onDate(o[j]["Date"])
            /\ \A j \in 1..Len(o) :
                   /\ onDate(o[j]["Date"]) # {}
                   /\ o[j]["Total Orders"] =
                          Cardinality({df_filtered[i]["order_id"] : i \in onDate(o[j]["Date"])})
            /\ \A j \in 1..(Len(o) - 1) : o[j]["Date"] < o[j + 1]["Date"]
            /\ Len(r) = Len(o)
            /\ \A j \in 1..Len(r) :
                   /\ r[j]["Date"] = o[j]["Date"]
                   /\ r[j]["Total Orders"] = o[j]["Total Orders"]
                   /\ r[j]["Total Revenue"] =
                          SumOver(onDate(r[j]["Date"]),
                                  [i \in rows |-> df_filtered[i]["price"]])

\* two dates, the later one first in the file, one of them with two rows of
\* one order
C7_Witness ==
    /\ Past("daily_revenue")
    /\ Len(out["daily_orders"]) = 2
    /\ Len(df_filtered) = 3
    /\ \E j \in 1..2 : out["daily_orders"][j]["Total Orders"] = 1
                       /\ out["daily_revenue"][j]["Total Revenue"] = 15
    /\ df_filtered[1]["order_purchase_timestamp"] > df_filtered[3]["order_purchase_timestamp"]
    /\ df_filtered[3]["order_purchase_timestamp"] # NULL

\* C8: load_data fetches at most once for DATA_URL: the first run fetches,
\* every later run takes the cached table without fetching, and each filter
\* change starts a run that computes its result tables anew from the current
\* selection.
C8_FetchOncePerUrl ==
    /\ [](fetches <= 1)
    /\ [](Past("load_data") => /\ fetches = 1
                              /\ Len(cache) = 1
                              /\ cache[1].url = DATA_URL
                              /\ final_dataset = cache[1].value)
    /\ [](Past("summary") =>
              out["summary"].total_orders =
                  Cardinality({cache[1].value[i]["order_id"] :
                      i \in {k \in 1..Len(cache[1].value) :
                                cache[1].value[k]["customer_state_y"] \in session[1]}}))
    /\ [][(At("load_data") /\ pc' = pc + 1) =>
              IF runs = 1 THEN cache = <<>> /\ fetches' = fetches + 1
              ELSE fetches' = fetches /\ cache' = cache]_vars
    /\ [][runs' # runs => runs' = runs + 1 /\ pc' = 1 /\ out' = <<>>]_vars

\* a second run has completed on the table the first run fetched
C8_Witness ==
    /\ runs = 2
    /\ Done
    /\ fetches = 1
    /\ Len(final_dataset) > 0

\* C9 as stated: no chart is rendered before all result tables of the run
\* have been produced.
C9_AllDerivedBeforeAnyRender ==
    rendered # {} => (ResultTables \cup {"summary"}) \subseteq DOMAIN out

\* C9 amended: a chart is rendered only after the result table it shows has
\* been produced in the same run, and it is rendered before the next
\* derivation starts: the charts rendered and the tables produced are exactly
\* those of the statements already executed.
C9_DerivedBeforeOwnRender ==
    /\ \A c \in rendered : c \in DOMAIN out
    /\ rendered = {Script[i - 1] : i \in {k \in 1..(pc - 1) : Script[k] = "st.plotly_chart"}}
    /\ DOMAIN out = {Script[i] : i \in {k \in 1..(pc - 1) : Script[k] \in ResultTables \cup {"summary"}}}

\* the first chart is on screen while later tables do not exist yet
C9_Witness ==
    /\ "daily_orders" \in rendered
    /\ "daily_revenue" \notin DOMAIN out

\* C10 as stated: no step after the filter step changes the filtered table
\* or the cached dataset.
C10_FilteredTableFrozen ==
    [][(Past("sidebar") /\ pc' = pc + 1) =>
           df_filtered' = df_filtered /\ cache' = cache]_vars

\* C10 amended: no step after the filter step removes a row or a column of
\* the filtered table or changes a cell of it, and none changes the loaded or
\* the cached dataset; the purchase-hour, shipping-duration and delivery-delay
\* steps add their derived columns to the filtered table, and no other step
\* changes it.
C10_FilteredTableOnlyGrows ==
    [][(Past("sidebar") /\ pc' = pc + 1) =>
           /\ cache' = cache
           /\ final_dataset' = final_dataset
           /\ Len(df_filtered') = Len(df_filtered)
           /\ \A i \in 1..Len(df_filtered) : SameRow(df_filtered'[i], df_filtered[i])
           /\ df_filtered' # df_filtered =>
                  Script[pc] \in {"order_purchase_hour", "shipping_time",
                                  "delivery_category"}]_vars

\* the filtered table has rows and carries the derived columns
C10_Witness ==
    /\ Past("delivery_category")
    /\ Len(df_filtered) > 0
    /\ {"order_purchase_hour", "shipping_time", "delivery_delay",
        "delivery_category"} \subseteq DOMAIN df_filtered[1]
    /\ "delivery_category" \notin DOMAIN final_dataset[1]

====
